---- MODULE Spec2Model ----
(***************************************************************************)
(* Model of the permission engine (app/core/security/permissions.py) and   *)
(* of the provider operations that use it (app/api/routes/v1/providers).   *)
(*                                                                         *)
(* Optional values (str | None) are sequences of length at most one:       *)
(* NULL is <<>>, a present value x is <<x>>.                               *)
(***************************************************************************)
EXTENDS Integers, Sequences, FiniteSets, TLC

VARIABLES
    db,         \* the committed database: one set of rows per table
    gen,        \* number of identifiers gen_id has handed out, per table
    res,        \* outcome of the last provider operation
    checker,    \* fields of the PermissionChecker under test
    check_res,  \* outcome of the last PermissionChecker.check() call
    inflight,   \* register calls past their checks and before their commit
    created_with \* history: per Link row, the id of the role made with it

vars == <<db, gen, res, checker, check_res, inflight, created_with>>

----------------------------------------------------------------------------
(* Bounds of the model *)

MaxRows == 2          \* Permission rows of the store the checker is run on
MaxCheckRoles == 2    \* length of PermissionChecker.roles
MaxModels == 2        \* length of PermissionChecker.pcheck_models

----------------------------------------------------------------------------
(* Constants of permissions.py *)

ADMIN_ROLE_NAME == "admin"
ADMIN_RESOURCE == "admin"
EXEMPLE_RESOURCE == "resource"
USER_RESOURCE == "user"
LINK_RESOURCE == "link"
ROLE_RESOURCE == "role"
ACTION_READ == "r"
ACTION_READWRITE == "rw"

\* kinds of outcome of an operation (the error taxonomy; "Error" is a failed
\* commit)
OK == "ok"
NotFound == "NotFound"
Conflict == "Conflict"
Unauthorized == "Unauthorized"
Validation == "Validation"
Error == "Error"

NULL == <<>>
Some(x) == <<x>>

----------------------------------------------------------------------------
(* Python values passed as PermissionCheckModel.resource_id (typed Any)    *)
(* and their conversion by str().                                          *)

PyStr(s) == [type |-> "str", text |-> s]
PyInt(s) == [type |-> "int", text |-> s]
PyNone == [type |-> "NoneType", text |-> "None"]

\* str(x): a str is itself, an int its decimal digits, None is "None"
str(x) == x.text

\* bool(s) of a str: the empty string is false
Truthy(s) == s # ""

----------------------------------------------------------------------------
(* Rows *)

Role(id, name) == [id |-> id, name |-> name]

Permission(pid, resource_name, resource_id, action, role_id) ==
    [permission_id |-> pid, resource_name |-> resource_name,
     resource_id |-> resource_id, action |-> action, role_id |-> role_id]

PermissionCheckModel(resource_name, resource_id, action_names) ==
    [kind |-> "PermissionCheckModel", resource_name |-> resource_name,
     resource_id |-> resource_id, action_names |-> action_names]

\* GlobalPermissionCheckModel has no resource_id field; the record carries
\* PyNone there, which no definition reads for this kind.
GlobalPermissionCheckModel(resource_name, action_names) ==
    [kind |-> "GlobalPermissionCheckModel", resource_name |-> resource_name,
     resource_id |-> PyNone, action_names |-> action_names]

----------------------------------------------------------------------------
(* Permission predicates *)

\* has_permission letting a grant with no resource_id stand for every id
has_permission_or_null(permissions, role, resource_name, resource_id, action_name) ==
    \E p \in permissions :
        /\ p.role_id = Some(role.id)
        /\ p.resource_name = resource_name
        /\ p.resource_id \in {Some(resource_id), NULL}
        /\ p.action = action_name

has_permission(permissions, role, resource_name, resource_id, action_name) ==
    \E p \in permissions :
        /\ p.role_id = Some(role.id)
        /\ p.resource_name = resource_name
        /\ p.resource_id = Some(resource_id)
        /\ p.action = action_name

\* has_global_permission with the filter resource_id IS NULL
has_global_permission_null_only(permissions, role, resource_name, action_name) ==
    \E p \in permissions :
        /\ p.role_id = Some(role.id)
        /\ p.resource_name = resource_name
        /\ p.action = action_name
        /\ p.resource_id = NULL

has_global_permission(permissions, role, resource_name, action_name) ==
    \E p \in permissions :
        /\ p.role_id = Some(role.id)
        /\ p.resource_name = resource_name
        /\ p.action = action_name

_is_allowed(permissions, role, pcheck, action_name) ==
    IF pcheck.kind = "PermissionCheckModel"
    THEN has_permission(permissions, role, pcheck.resource_name,
                        str(pcheck.resource_id), action_name)
    ELSE has_global_permission(permissions, role, pcheck.resource_name,
                               action_name)

----------------------------------------------------------------------------
(* PermissionChecker.check *)

\* [role.name for role in self.roles if role.name is not None]
roles_to_check(c) ==
    LET named == SelectSeq(c.roles, LAMBDA r : r.name # NULL)
    IN  [i \in 1..Len(named) |-> named[i].name[1]]

InSeq(x, s) == \E i \in 1..Len(s) : s[i] = x

\* self.bypass_role in roles_to_check or
\* any([b for b in self.bypass_roles if b in roles_to_check])
bypass(c) ==
    LET names == roles_to_check(c)
        hits == SelectSeq(c.bypass_roles, LAMBDA b : InSeq(b, names))
    IN  \/ (c.bypass_role # NULL /\ InSeq(c.bypass_role[1], names))
        \/ \E i \in 1..Len(hits) : Truthy(hits[i])

\* the (pcheck, action_name) pairs in the order the nested loops visit them
RECURSIVE pairs(_)
pairs(models) ==
    IF models = <<>> THEN <<>>
    ELSE LET m == Head(models)
         IN  [i \in 1..Len(m.action_names) |-> <<m, m.action_names[i]>>]
             \o pairs(Tail(models))

\* check_either giving up after the first role
check_either_first_role(permissions, roles, models, evals) ==
    IF roles = <<>> THEN [allow |-> FALSE, evals |-> evals]
    ELSE LET ps == pairs(models)
             ok(i) == _is_allowed(permissions, Head(roles), ps[i][1], ps[i][2])
             hit == {i \in 1..Len(ps) : ok(i)}
             first == CHOOSE i \in hit : \A j \in hit : i <= j
         IN  IF hit # {}
             THEN [allow |-> TRUE, evals |-> evals + first]
             ELSE [allow |-> FALSE, evals |-> evals + Len(ps)]

\* the loop of lines 206-213: stop at the first satisfied predicate
RECURSIVE check_either(_, _, _, _)
check_either(permissions, roles, models, evals) ==
    IF roles = <<>> THEN [allow |-> FALSE, evals |-> evals]
    ELSE LET ps == pairs(models)
             ok(i) == _is_allowed(permissions, Head(roles), ps[i][1], ps[i][2])
             hit == {i \in 1..Len(ps) : ok(i)}
             first == CHOOSE i \in hit : \A j \in hit : i <= j
         IN  IF hit # {}
             THEN [allow |-> TRUE, evals |-> evals + first]
             ELSE check_either(permissions, Tail(roles), models,
                               evals + Len(ps))

\* check_all with all_permissions_satisfied kept per predicate instead of
\* per role: every predicate holds for some role
check_all_any_role(permissions, roles, models, evals) ==
    LET ps == pairs(models)
    IN  [allow |-> /\ roles # <<>>
                   /\ \A i \in 1..Len(ps) : \E r \in 1..Len(roles) :
                         _is_allowed(permissions, roles[r], ps[i][1], ps[i][2]),
         evals |-> evals + Len(roles) * Len(ps)]

\* the loop of lines 215-228: per role, stop at the first failed predicate
RECURSIVE check_all(_, _, _, _)
check_all(permissions, roles, models, evals) ==
    IF roles = <<>> THEN [allow |-> FALSE, evals |-> evals]
    ELSE LET ps == pairs(models)
             ok(i) == _is_allowed(permissions, Head(roles), ps[i][1], ps[i][2])
             miss == {i \in 1..Len(ps) : ~ok(i)}
             first == CHOOSE i \in miss : \A j \in miss : i <= j
         IN  IF miss = {}
             THEN [allow |-> TRUE, evals |-> evals + Len(ps)]
             ELSE check_all(permissions, Tail(roles), models, evals + first)

\* check(either): allow is a True return, ~allow the HTTPException(401)
check(permissions, c, either) ==
    IF bypass(c) THEN [allow |-> TRUE, evals |-> 0]
    ELSE IF either THEN check_either(permissions, c.roles, c.pcheck_models, 0)
    ELSE check_all(permissions, c.roles, c.pcheck_models, 0)

PermissionChecker(roles, bypass_role, bypass_roles, pcheck_models) ==
    [roles |-> roles, bypass_role |-> bypass_role,
     bypass_roles |-> bypass_roles, pcheck_models |-> pcheck_models]

----------------------------------------------------------------------------
(* The checker on its own: a store of Role and Permission rows, a          *)
(* PermissionChecker constructed over it, and calls of check().            *)

\* no Link row yet
NoLinks == [id \in {} |-> ""]

EmptyDb ==
    [user |-> {}, role |-> {}, permission |-> {}, roleuserlink |-> {},
     link |-> {}, loginsession |-> {}, authsession |-> {}]

NoGen ==
    [user |-> 0, role |-> 0, permission |-> 0, link |-> 0, loginsession |-> 0]

NoRes == [status |-> OK, message |-> ""]

NoCheck == [done |-> FALSE, either |-> FALSE, allow |-> FALSE, evals |-> 0]

\* roles of the store: an anonymous role, an admin role, a role named ""
CheckRoles ==
    {Role("r1", NULL), Role("r2", Some(ADMIN_ROLE_NAME)), Role("r3", Some(""))}

\* what a Permission row of the store may grant: (resource_name, resource_id,
\* action)
CheckGrants ==
    {<<LINK_RESOURCE, NULL, ACTION_READWRITE>>,
     <<LINK_RESOURCE, Some("1"), ACTION_READWRITE>>,
     <<LINK_RESOURCE, Some("1"), ACTION_READ>>,
     <<USER_RESOURCE, Some("1"), ACTION_READWRITE>>}

CheckRows ==
    {Permission(<<r, g>>, g[1], g[2], g[3], Some(r)) :
        r \in {"r1", "r2"}, g \in CheckGrants}

CheckModels ==
    {PermissionCheckModel(LINK_RESOURCE, PyInt("1"), <<ACTION_READWRITE>>),
     PermissionCheckModel(LINK_RESOURCE, PyNone, <<ACTION_READWRITE>>),
     GlobalPermissionCheckModel(LINK_RESOURCE,
                                <<ACTION_READWRITE, ACTION_READ>>),
     GlobalPermissionCheckModel(USER_RESOURCE, <<ACTION_READWRITE>>),
     GlobalPermissionCheckModel(LINK_RESOURCE, <<>>)}

\* (bypass_role, bypass_roles) of the checker
CheckBypass ==
    {<<NULL, <<>>>>, <<Some(ADMIN_ROLE_NAME), <<>>>>, <<NULL, <<"">>>>,
     <<NULL, <<"staff", ADMIN_ROLE_NAME>>>>}

\* sequences over S of length at most n
SeqsUpTo(S, n) == UNION {[1..k -> S] : k \in 0..n}

Injective(s) == \A i, j \in 1..Len(s) : s[i] = s[j] => i = j

InitCheck ==
    /\ \E rows \in SUBSET CheckRows :
        /\ Cardinality(rows) <= MaxRows
        /\ db = [EmptyDb EXCEPT !.role = CheckRoles, !.permission = rows]
    /\ gen = NoGen
    /\ res = NoRes
    /\ \E roles \in SeqsUpTo(CheckRoles, MaxCheckRoles),
          by \in CheckBypass,
          pcheck_models \in SeqsUpTo(CheckModels, MaxModels) :
        /\ Injective(roles)
        /\ checker = PermissionChecker(roles, by[1], by[2], pcheck_models)
    /\ check_res = NoCheck
    /\ inflight = {}
    /\ created_with = NoLinks

\* check() that consumes the request it has evaluated
CheckPopping(either) ==
    /\ check_res' = [done |-> TRUE, either |-> either] @@
                    check(db.permission, checker, either)
    /\ checker' = [checker EXCEPT !.pcheck_models =
                       IF @ = <<>> THEN @ ELSE Tail(@)]
    /\ UNCHANGED <<db, gen, res, inflight, created_with>>

\* one call of checker.check(either)
Check(either) ==
    /\ check_res' = [done |-> TRUE, either |-> either] @@
                    check(db.permission, checker, either)
    /\ UNCHANGED <<db, gen, res, checker, inflight, created_with>>

NextCheck == \E either \in BOOLEAN : Check(either)

SpecCheck == InitCheck /\ [][NextCheck]_vars

----------------------------------------------------------------------------
(* The database session: rows, pending changes, commit                     *)

MaxUsers == 2         \* User rows ever created
MaxRoles == 3         \* Role rows ever created
MaxPerms == 5         \* Permission rows ever created
MaxLinks == 2         \* Link rows ever created
MaxSessions == 1      \* LoginSession rows ever created
MaxIds == 10          \* rows ever created, all tables together

User(id, email, username) == [id |-> id, email |-> email, username |-> username]

Link(id, user_id, label) == [id |-> id, user_id |-> user_id, label |-> label]

LoginSession(id, user_id) == [id |-> id, user_id |-> user_id]
RoleUserLink(user_id, role_id) == [user_id |-> user_id, role_id |-> role_id]

\* gen_id(): the n-th identifier handed out for a table, never handed out
\* before
gen_id(table, n) ==
    (CASE table = "user" -> "u" [] table = "role" -> "r"
       [] table = "permission" -> "p" [] table = "link" -> "l"
       [] table = "loginsession" -> "s") \o ToString(n)

\* a session with nothing pending
NoTx == [add |-> EmptyDb, delete |-> EmptyDb]

\* db_session.add / add_all
session_add(tx, table, rows) == [tx EXCEPT !.add[table] = @ \cup rows]

\* db_session.delete of Permission, RoleUserLink and Link rows (no cascade)
session_delete(tx, table, rows) == [tx EXCEPT !.delete[table] = @ \cup rows]

\* a db_session.delete(role) that leaves the role's permissions in place
session_delete_roles_only(d, tx, roles) ==
    LET ids == {r.id : r \in roles}
    IN  [tx EXCEPT
            !.delete.role = @ \cup roles,
            !.delete.roleuserlink =
                @ \cup {l \in d.roleuserlink : l.role_id \in ids}]

\* db_session.delete(role): Role.permissions has cascade_delete, and the
\* rows of the link table that name the role go with it
session_delete_roles(d, tx, roles) ==
    LET ids == {r.id : r \in roles}
    IN  [tx EXCEPT
            !.delete.role = @ \cup roles,
            !.delete.permission =
                @ \cup {p \in d.permission :
                            p.role_id # NULL /\ p.role_id[1] \in ids},
            !.delete.roleuserlink =
                @ \cup {l \in d.roleuserlink : l.role_id \in ids}]

\* user.roles: the roles joined to the user through RoleUserLink
roles_of(d, user) ==
    {r \in d.role : RoleUserLink(user.id, r.id) \in d.roleuserlink}

\* a db_session.delete(user) whose cascade stops at the roles
session_delete_user_roles_only(d, tx, user) ==
    LET t1 == session_delete_roles(d, tx, roles_of(d, user))
    IN  [t1 EXCEPT
            !.delete.user = @ \cup {user},
            !.delete.roleuserlink =
                @ \cup {l \in d.roleuserlink : l.user_id = user.id}]

\* db_session.delete(user): User.login_sessions, User.auth_sessions,
\* User.roles and User.links have cascade_delete
session_delete_user(d, tx, user) ==
    LET t1 == session_delete_roles(d, tx, roles_of(d, user))
    IN  [t1 EXCEPT
            !.delete.user = @ \cup {user},
            !.delete.loginsession =
                @ \cup {x \in d.loginsession : x.user_id = user.id},
            !.delete.authsession =
                @ \cup {x \in d.authsession : x.user_id = user.id},
            !.delete.link = @ \cup {l \in d.link : l.user_id = user.id},
            !.delete.roleuserlink =
                @ \cup {l \in d.roleuserlink : l.user_id = user.id}]

\* a flush that inserts a RoleUserLink whose primary key (user_id, role_id)
\* is already in the table fails
IntegrityError(d, tx) ==
    (tx.add.roleuserlink \cap (d.roleuserlink \ tx.delete.roleuserlink)) # {}

\* db_session.commit(): all pending changes, or none when the transaction
\* fails (fault: a failure forced while it runs)
commit(d, tx, fault) ==
    IF fault \/ IntegrityError(d, tx)
    THEN [ok |-> FALSE, db |-> d]
    ELSE [ok |-> TRUE,
          db |-> [t \in DOMAIN d |-> (d[t] \ tx.delete[t]) \cup tx.add[t]]]

----------------------------------------------------------------------------
(* Guard checkers and builders *)

\* check_existence: NotFound unless a status is given
check_existence(value) == value # {}

\* check_non_existence: Conflict when the value is present
check_non_existence(value) == value = {}

\* check_equality: Validation when unequal
check_equality(a, b) == a = b

\* check_conditions: Unauthorized when a condition is false
check_conditions(conditions) ==
    \A i \in 1..Len(conditions) : conditions[i]

\* verify_password(password, user.hashed_password); every registration of
\* the model is made with the password "pw"
verify_password(password, user) == password = "pw"

\* RoleBuilder().addUser(u)...withName(name).make(): the Role and its links
RoleBuilder(id, name, users) ==
    [role |-> Role(id, name),
     links |-> {RoleUserLink(u.id, id) : u \in users}]

\* PermissionBuilder()...forRole(role).make()
PermissionBuilder(pid, role, resource_name, resource_id, action_name) ==
    Permission(pid, resource_name, resource_id, action_name, Some(role.id))

----------------------------------------------------------------------------
(* Outcomes of provider operations *)

raise(d, g, kind) == [status |-> kind, message |-> "", db |-> d, gen |-> g]

\* the commit that ends an operation, and the message it returns; g1 counts
\* the identifiers in use once the new rows are committed
finish(d, g, g1, tx, fault, message) ==
    LET c == commit(d, tx, fault)
    IN  IF c.ok
        THEN [status |-> OK, message |-> message, db |-> c.db, gen |-> g1]
        ELSE raise(d, g, Error)

\* a set as a sequence, in the order the database returns the rows
RECURSIVE SetToSeq(_)
SetToSeq(S) ==
    IF S = {} THEN <<>>
    ELSE LET x == CHOOSE x \in S : TRUE IN <<x>> \o SetToSeq(S \ {x})

\* PermissionChecker(db_session, roles=current_user.roles, ...).check(either)
authorized(d, current_user, bypass_role, pcheck_models, either) ==
    check(d.permission,
          PermissionChecker(SetToSeq(roles_of(d, current_user)), bypass_role,
                            <<>>, pcheck_models),
          either).allow

\* db_session.get(Table, id): the row, or nothing
get(d, table, id) ==
    IF table = "permission"
    THEN {r \in d.permission : r.permission_id = id}
    ELSE {r \in d[table] : r.id = id}

The(S) == CHOOSE x \in S : TRUE

----------------------------------------------------------------------------
(* providers/auth.py *)

\* get_env("ADMIN_EMAILS").split(";")
ADMIN_EMAILS == {"root@x.org"}

\* lines 43-52: the checks register makes before it builds any row
register_checks(d, username, email, password, password_confirm) ==
    IF ~check_non_existence(
           {u \in d.user : u.email = email \/ u.username = username})
    THEN Conflict
    ELSE IF ~check_equality(password, password_confirm)
    THEN Validation
    ELSE OK

\* a register that builds the admin role whatever the email is
register_writes_admin_always(d, g, username, email, fault) ==
    LET user == User(gen_id("user", g.user + 1), email, username)
        rb == RoleBuilder(gen_id("role", g.role + 1), NULL, {user})
        perm == PermissionBuilder(gen_id("permission", g.permission + 1),
                    rb.role, USER_RESOURCE, Some(user.id), ACTION_READWRITE)
        is_admin == TRUE
        ab == RoleBuilder(gen_id("role", g.role + 2),
                          Some(ADMIN_ROLE_NAME), {user})
        user_rw_perm == PermissionBuilder(
            gen_id("permission", g.permission + 2), ab.role,
            USER_RESOURCE, NULL, ACTION_READWRITE)
        role_rw_perm == PermissionBuilder(
            gen_id("permission", g.permission + 3), ab.role,
            ROLE_RESOURCE, NULL, ACTION_READWRITE)
        admin_rw_perm == PermissionBuilder(
            gen_id("permission", g.permission + 4), ab.role,
            ADMIN_RESOURCE, NULL, ACTION_READWRITE)
        t0 == IF is_admin
              THEN session_add(session_add(session_add(NoTx,
                       "permission",
                       {user_rw_perm, role_rw_perm, admin_rw_perm}),
                       "role", {ab.role}),
                       "roleuserlink", ab.links)
              ELSE NoTx
        t1 == session_add(session_add(session_add(session_add(t0,
                  "user", {user}),
                  "permission", {perm}),
                  "role", {rb.role}),
                  "roleuserlink", rb.links)
        g1 == [g EXCEPT !.user = @ + 1,
                        !.role = @ + (IF is_admin THEN 2 ELSE 1),
                        !.permission = @ + (IF is_admin THEN 4 ELSE 1)]
    IN  finish(d, g, g1, t1, fault, "Registered !")

\* lines 53-102: the rows register builds, and its commit
register_writes(d, g, username, email, fault) ==
    LET user == User(gen_id("user", g.user + 1), email, username)
        rb == RoleBuilder(gen_id("role", g.role + 1), NULL, {user})
        perm == PermissionBuilder(gen_id("permission", g.permission + 1),
                    rb.role, USER_RESOURCE, Some(user.id), ACTION_READWRITE)
        is_admin == email \in ADMIN_EMAILS
        ab == RoleBuilder(gen_id("role", g.role + 2),
                          Some(ADMIN_ROLE_NAME), {user})
        user_rw_perm == PermissionBuilder(
            gen_id("permission", g.permission + 2), ab.role,
            USER_RESOURCE, NULL, ACTION_READWRITE)
        role_rw_perm == PermissionBuilder(
            gen_id("permission", g.permission + 3), ab.role,
            ROLE_RESOURCE, NULL, ACTION_READWRITE)
        admin_rw_perm == PermissionBuilder(
            gen_id("permission", g.permission + 4), ab.role,
            ADMIN_RESOURCE, NULL, ACTION_READWRITE)
        t0 == IF is_admin
              THEN session_add(session_add(session_add(NoTx,
                       "permission",
                       {user_rw_perm, role_rw_perm, admin_rw_perm}),
                       "role", {ab.role}),
                       "roleuserlink", ab.links)
              ELSE NoTx
        t1 == session_add(session_add(session_add(session_add(t0,
                  "user", {user}),
                  "permission", {perm}),
                  "role", {rb.role}),
                  "roleuserlink", rb.links)
        g1 == [g EXCEPT !.user = @ + 1,
                        !.role = @ + (IF is_admin THEN 2 ELSE 1),
                        !.permission = @ + (IF is_admin THEN 4 ELSE 1)]
    IN  finish(d, g, g1, t1, fault, "Registered !")

\* a register that commits the User row before it compares the passwords
register_eager(d, g, username, email, password, password_confirm, fault) ==
    IF ~check_non_existence(
           {u \in d.user : u.email = email \/ u.username = username})
    THEN raise(d, g, Conflict)
    ELSE
    LET user == User(gen_id("user", g.user + 1), email, username)
        c == commit(d, session_add(NoTx, "user", {user}), fault)
        g1 == [g EXCEPT !.user = @ + 1]
    IN  IF ~c.ok THEN raise(d, g, Error)
        ELSE IF ~check_equality(password, password_confirm)
        THEN raise(c.db, g1, Validation)
        ELSE [status |-> OK, message |-> "Registered !", db |-> c.db,
              gen |-> g1]

register(d, g, username, email, password, password_confirm, fault) ==
    LET checks == register_checks(d, username, email, password,
                                  password_confirm)
    IN  IF checks # OK THEN raise(d, g, checks)
        ELSE register_writes(d, g, username, email, fault)

login(d, g, email, password, fault) ==
    LET found == {u \in d.user : u.email = email}
        user == The(found)
        login_session ==
            LoginSession(gen_id("loginsession", g.loginsession + 1), user.id)
    IN  IF ~check_existence(found) THEN raise(d, g, NotFound)
        ELSE IF ~check_conditions(<<verify_password(password, user)>>)
        THEN raise(d, g, Unauthorized)
        ELSE finish(d, g, [g EXCEPT !.loginsession = @ + 1],
                    session_add(NoTx, "loginsession", {login_session}),
                    fault, "Logged in successfully.")

----------------------------------------------------------------------------
(* providers/link.py *)

\* a create_link that commits the Link on its own, then the Role and the
\* Permission in a second transaction
create_link_two_commits(d, g, current_user, label, fault) ==
    IF ~check_non_existence({l \in d.link : l.label = label})
    THEN raise(d, g, Conflict)
    ELSE
    LET link == Link(gen_id("link", g.link + 1), current_user.id, label)
        rw_role == RoleBuilder(gen_id("role", g.role + 1), NULL,
                               {current_user})
        rw_perm == PermissionBuilder(gen_id("permission", g.permission + 1),
                       rw_role.role, LINK_RESOURCE, Some(link.id),
                       ACTION_READWRITE)
        c1 == commit(d, session_add(NoTx, "link", {link}), FALSE)
        t2 == session_add(session_add(session_add(NoTx,
                  "role", {rw_role.role}),
                  "roleuserlink", rw_role.links),
                  "permission", {rw_perm})
        g1 == [g EXCEPT !.link = @ + 1]
        g2 == [g1 EXCEPT !.role = @ + 1, !.permission = @ + 1]
        c2 == commit(c1.db, t2, fault)
    IN  IF c2.ok
        THEN [status |-> OK, message |-> "", db |-> c2.db, gen |-> g2]
        ELSE raise(c1.db, g1, Error)

create_link(d, g, current_user, label, fault) ==
    IF ~check_non_existence({l \in d.link : l.label = label})
    THEN raise(d, g, Conflict)
    ELSE
    LET link == Link(gen_id("link", g.link + 1), current_user.id, label)
        rw_role == RoleBuilder(gen_id("role", g.role + 1), NULL,
                               {current_user})
        rw_perm == PermissionBuilder(gen_id("permission", g.permission + 1),
                       rw_role.role, LINK_RESOURCE, Some(link.id),
                       ACTION_READWRITE)
        t1 == session_add(session_add(session_add(session_add(NoTx,
                  "link", {link}),
                  "role", {rw_role.role}),
                  "roleuserlink", rw_role.links),
                  "permission", {rw_perm})
        g1 == [g EXCEPT !.link = @ + 1, !.role = @ + 1, !.permission = @ + 1]
    IN  finish(d, g, g1, t1, fault, "")

\* update_link without the .check() of lines 82-92
update_link_unchecked(d, g, current_user, id, label, fault) ==
    LET found == get(d, "link", id)
        link == The(found)
    IN  IF ~check_existence(found) THEN raise(d, g, NotFound)
        ELSE finish(d, g, g,
                 session_add(session_delete(NoTx, "link", {link}),
                             "link", {[link EXCEPT !.label = label]}),
                 fault, "")

update_link(d, g, current_user, id, label, fault) ==
    LET found == get(d, "link", id)
        link == The(found)
    IN  IF ~check_existence(found) THEN raise(d, g, NotFound)
        ELSE IF ~authorized(d, current_user, NULL,
                    <<PermissionCheckModel(LINK_RESOURCE, PyStr(link.id),
                                           <<ACTION_READWRITE>>)>>, FALSE)
        THEN raise(d, g, Unauthorized)
        ELSE finish(d, g, g,
                 session_add(session_delete(NoTx, "link", {link}),
                             "link", {[link EXCEPT !.label = label]}),
                 fault, "")

delete_link(d, g, current_user, link_id, fault) ==
    LET found == get(d, "link", link_id)
        link == The(found)
    IN  IF ~check_existence(found) THEN raise(d, g, NotFound)
        ELSE IF ~authorized(d, current_user, Some(ADMIN_ROLE_NAME),
                    <<PermissionCheckModel(LINK_RESOURCE, PyStr(link.id),
                                           <<ACTION_READWRITE>>)>>, FALSE)
        THEN raise(d, g, Unauthorized)
        ELSE finish(d, g, g, session_delete(NoTx, "link", {link}), fault,
                    "Link deleted successfully.")

----------------------------------------------------------------------------
(* providers/user.py *)

Global(resource_name, action_name) ==
    GlobalPermissionCheckModel(resource_name, <<action_name>>)

delete_user(d, g, current_user, target_user_id, fault) ==
    LET found == get(d, "user", target_user_id)
    IN  IF ~authorized(d, current_user, Some(ADMIN_ROLE_NAME),
                <<Global(USER_RESOURCE, ACTION_READWRITE)>>, TRUE)
        THEN raise(d, g, Unauthorized)
        ELSE IF ~check_existence(found) THEN raise(d, g, NotFound)
        ELSE finish(d, g, g, session_delete_user(d, NoTx, The(found)), fault,
                    "User deleted successfully.")

add_permission_to_user(d, g, current_user, target_user_id, action_name, resource_id, resource_name, role_name, fault) ==
    LET found == get(d, "user", target_user_id)
        rb == RoleBuilder(gen_id("role", g.role + 1), role_name, found)
        permission == PermissionBuilder(
            gen_id("permission", g.permission + 1), rb.role, resource_name,
            Some(resource_id), action_name)
        t1 == session_add(session_add(session_add(NoTx,
                  "role", {rb.role}),
                  "roleuserlink", rb.links),
                  "permission", {permission})
        g1 == [g EXCEPT !.role = @ + 1, !.permission = @ + 1]
    IN  IF ~authorized(d, current_user, NULL,
                <<Global(ADMIN_RESOURCE, ACTION_READWRITE)>>, FALSE)
        THEN raise(d, g, Unauthorized)
        ELSE IF ~check_existence(found) THEN raise(d, g, NotFound)
        ELSE finish(d, g, g1, t1, fault, "Permission added successfully.")

\* the PermissionChecker of lines 163-171 is constructed and never asked
remove_role_from_user(d, g, current_user, role_id, target_user_id, fault) ==
    LET role_user_link ==
            {l \in d.roleuserlink :
                l.user_id = target_user_id /\ l.role_id = role_id}
    IN  IF ~check_existence(get(d, "user", target_user_id))
        THEN raise(d, g, NotFound)
        ELSE IF ~check_existence(role_user_link) THEN raise(d, g, NotFound)
        ELSE finish(d, g, g,
                    session_delete(NoTx, "roleuserlink", role_user_link),
                    fault, "Role remove from user successfully.")

create_role(d, g, current_user, role_name, fault) ==
    LET rb == RoleBuilder(gen_id("role", g.role + 1), Some(role_name), {})
    IN  IF ~authorized(d, current_user, Some(ADMIN_ROLE_NAME),
                <<Global(ROLE_RESOURCE, ACTION_READWRITE)>>, FALSE)
        THEN raise(d, g, Unauthorized)
        ELSE finish(d, g, [g EXCEPT !.role = @ + 1],
                    session_add(NoTx, "role", {rb.role}), fault,
                    "Role created successfully.")

delete_role(d, g, current_user, role_id, fault) ==
    LET found == get(d, "role", role_id)
    IN  IF ~authorized(d, current_user, Some(ADMIN_ROLE_NAME),
                <<Global(ROLE_RESOURCE, ACTION_READWRITE)>>, FALSE)
        THEN raise(d, g, Unauthorized)
        ELSE IF ~check_existence(found) THEN raise(d, g, NotFound)
        ELSE finish(d, g, g, session_delete_roles(d, NoTx, found), fault,
                    "Role deleted successfully.")

\* an assign_role_to_user that inserts the row without looking for it first
assign_role_to_user_unchecked(d, g, current_user, user_id, role_id, fault) ==
    IF ~authorized(d, current_user, Some(ADMIN_ROLE_NAME),
            <<Global(USER_RESOURCE, ACTION_READWRITE)>>, FALSE)
    THEN raise(d, g, Unauthorized)
    ELSE IF ~check_existence(get(d, "user", user_id))
    THEN raise(d, g, NotFound)
    ELSE IF ~check_existence(get(d, "role", role_id))
    THEN raise(d, g, NotFound)
    ELSE finish(d, g, g,
                session_add(NoTx, "roleuserlink",
                            {RoleUserLink(user_id, role_id)}),
                fault, "Role assigned to user successfully.")

assign_role_to_user(d, g, current_user, user_id, role_id, fault) ==
    LET existing_link ==
            {l \in d.roleuserlink :
                l.user_id = user_id /\ l.role_id = role_id}
    IN  IF ~authorized(d, current_user, Some(ADMIN_ROLE_NAME),
                <<Global(USER_RESOURCE, ACTION_READWRITE)>>, FALSE)
        THEN raise(d, g, Unauthorized)
        ELSE IF ~check_existence(get(d, "user", user_id))
        THEN raise(d, g, NotFound)
        ELSE IF ~check_existence(get(d, "role", role_id))
        THEN raise(d, g, NotFound)
        ELSE IF existing_link # {}
        THEN [status |-> OK, message |-> "User already has this role.",
              db |-> d, gen |-> g]
        ELSE finish(d, g, g,
                    session_add(NoTx, "roleuserlink",
                                {RoleUserLink(user_id, role_id)}),
                    fault, "Role assigned to user successfully.")

create_permission(d, g, current_user, role_id, action_name, resource_name, resource_id, fault) ==
    LET found == get(d, "role", role_id)
        permission == PermissionBuilder(
            gen_id("permission", g.permission + 1), The(found),
            resource_name, resource_id, action_name)
    IN  IF ~authorized(d, current_user, Some(ADMIN_ROLE_NAME),
                <<Global(ROLE_RESOURCE, ACTION_READWRITE)>>, FALSE)
        THEN raise(d, g, Unauthorized)
        ELSE IF ~check_existence(found) THEN raise(d, g, NotFound)
        ELSE finish(d, g, [g EXCEPT !.permission = @ + 1],
                    session_add(NoTx, "permission", {permission}), fault,
                    "Permission created successfully.")

delete_permission(d, g, current_user, permission_id, fault) ==
    LET found == get(d, "permission", permission_id)
    IN  IF ~authorized(d, current_user, Some(ADMIN_ROLE_NAME),
                <<Global(ROLE_RESOURCE, ACTION_READWRITE)>>, FALSE)
        THEN raise(d, g, Unauthorized)
        ELSE IF ~check_existence(found) THEN raise(d, g, NotFound)
        ELSE finish(d, g, g, session_delete(NoTx, "permission", found),
                    fault, "Permission deleted successfully.")

\* The providers that only read: the outcome of their permission check
\* (and of their existence check), the rows they return left out.
UserReadGuard ==
    <<Global(USER_RESOURCE, ACTION_READ),
      Global(USER_RESOURCE, ACTION_READWRITE)>>

get_users(d, current_user) ==
    IF ~authorized(d, current_user, Some(ADMIN_ROLE_NAME), UserReadGuard,
                   TRUE)
    THEN Unauthorized ELSE OK

get_user_roles(d, current_user) ==
    IF ~authorized(d, current_user, Some(ADMIN_ROLE_NAME), UserReadGuard,
                   TRUE)
    THEN Unauthorized ELSE OK

get_all_roles(d, current_user) ==
    IF ~authorized(d, current_user, Some(ADMIN_ROLE_NAME),
            <<Global(ROLE_RESOURCE, ACTION_READ),
              Global(ROLE_RESOURCE, ACTION_READWRITE)>>, TRUE)
    THEN Unauthorized ELSE OK

\* lines 96-114: no bypass_role is given
get_role_permissions(d, current_user, role_id) ==
    IF ~authorized(d, current_user, NULL,
            <<Global(ROLE_RESOURCE, ACTION_READWRITE),
              Global(ROLE_RESOURCE, ACTION_READ)>>, TRUE)
    THEN Unauthorized
    ELSE IF ~check_existence(get(d, "role", role_id)) THEN NotFound
    ELSE OK

get_user_link(d, current_user, target_user_id) ==
    IF ~authorized(d, current_user, Some(ADMIN_ROLE_NAME),
            <<Global(LINK_RESOURCE, ACTION_READ),
              Global(LINK_RESOURCE, ACTION_READWRITE)>>, TRUE)
    THEN Unauthorized
    ELSE IF ~check_existence(get(d, "user", target_user_id)) THEN NotFound
    ELSE OK

----------------------------------------------------------------------------
(* The provider operations as actions. The caller is any User row (the     *)
(* identity resolved by get_current_user); the arguments are drawn from    *)
(* small sets.                                                             *)

\* (username, email) of the registrations attempted
Registrations ==
    {<<"root", "root@x.org">>, <<"ann", "ann@x.org">>,
     <<"bob", "bob@x.org">>, <<"ann", "root@x.org">>}
Passwords == {"pw", "pw2"}
Labels == {"a", "b"}
RoleNames == {"staff"}

\* identifiers a caller may name: those of the rows, and one of no row
Ids(table) ==
    IF table = "permission"
    THEN {r.permission_id : r \in db.permission} \cup {"p0"}
    ELSE {r.id : r \in db[table]} \cup {gen_id(table, 0)}

\* the newest row of a table, and the identifier of no row
Newest(table) == {gen_id(table, gen[table]), gen_id(table, 0)}

\* gen_id has identifiers left for the rows counted by g
Within(g) ==
    /\ g.user <= MaxUsers
    /\ g.role <= MaxRoles
    /\ g.permission <= MaxPerms
    /\ g.link <= MaxLinks
    /\ g.loginsession <= MaxSessions
    /\ g.user + g.role + g.permission + g.link + g.loginsession <= MaxIds

\* History of create_link: the Link rows of the outcome, each with the id of
\* the role create_link built in the same call (the newest role, for a Link
\* row that the call has added).
role_made_with(made, out) ==
    [id \in {l.id : l \in out.db.link} |->
        IF id \in DOMAIN made THEN made[id]
        ELSE gen_id("role", out.gen.role)]

\* The step of one call of a provider operation, given its outcome. A
\* failure of the transaction is forced (fault) only on a call that reaches
\* its commit: on any other call it changes nothing. A call that would leave
\* more rows created than the model bounds is left out.
Done(out, fault) ==
    /\ Within(out.gen)
    /\ fault => out.status = Error
    /\ db' = out.db
    /\ gen' = out.gen
    /\ res' = [status |-> out.status, message |-> out.message]
    /\ created_with' = role_made_with(created_with, out)
    /\ UNCHANGED <<checker, check_res, inflight>>

Register(username, email, password_confirm, fault) ==
    Done(register(db, gen, username, email, "pw", password_confirm, fault),
         fault)

Login(email, password, fault) ==
    Done(login(db, gen, email, password, fault), fault)

CreateLink(current_user, label, fault) ==
    Done(create_link(db, gen, current_user, label, fault), fault)

UpdateLink(current_user, id, label, fault) ==
    Done(update_link(db, gen, current_user, id, label, fault), fault)

DeleteLink(current_user, link_id, fault) ==
    Done(delete_link(db, gen, current_user, link_id, fault), fault)

DeleteUser(current_user, target_user_id, fault) ==
    Done(delete_user(db, gen, current_user, target_user_id, fault), fault)

AddPermissionToUser(current_user, target_user_id, role_name, fault) ==
    Done(add_permission_to_user(db, gen, current_user, target_user_id,
             ACTION_READ, gen_id("link", 1), LINK_RESOURCE, role_name, fault),
         fault)

RemoveRoleFromUser(current_user, role_id, target_user_id, fault) ==
    Done(remove_role_from_user(db, gen, current_user, role_id,
                               target_user_id, fault), fault)

CreateRole(current_user, role_name, fault) ==
    Done(create_role(db, gen, current_user, role_name, fault), fault)

DeleteRole(current_user, role_id, fault) ==
    Done(delete_role(db, gen, current_user, role_id, fault), fault)

AssignRoleToUser(current_user, user_id, role_id, fault) ==
    Done(assign_role_to_user(db, gen, current_user, user_id, role_id, fault),
         fault)

CreatePermission(current_user, role_id, resource_id, fault) ==
    Done(create_permission(db, gen, current_user, role_id, ACTION_READWRITE,
                           ROLE_RESOURCE, resource_id, fault), fault)

DeletePermission(current_user, permission_id, fault) ==
    Done(delete_permission(db, gen, current_user, permission_id, fault),
         fault)

Init ==
    /\ db = EmptyDb
    /\ gen = NoGen
    /\ res = NoRes
    /\ checker = PermissionChecker(<<>>, NULL, <<>>, <<>>)
    /\ check_res = NoCheck
    /\ inflight = {}
    /\ created_with = NoLinks

Next ==
    \/ \E r \in Registrations, password_confirm \in Passwords,
          fault \in BOOLEAN :
        Register(r[1], r[2], password_confirm, fault)
    \/ \E r \in Registrations, password \in Passwords, fault \in BOOLEAN :
        Login(r[2], password, fault)
    \/ \E current_user \in db.user, fault \in BOOLEAN :
        \/ \E label \in Labels : CreateLink(current_user, label, fault)
        \/ \E id \in Ids("link"), label \in Labels :
            UpdateLink(current_user, id, label, fault)
        \/ \E link_id \in Ids("link") :
            DeleteLink(current_user, link_id, fault)
        \/ \E target_user_id \in Ids("user") :
            DeleteUser(current_user, target_user_id, fault)
        \/ \E target_user_id \in Ids("user"),
              role_name \in {NULL, Some(ADMIN_ROLE_NAME)} :
            AddPermissionToUser(current_user, target_user_id, role_name,
                                fault)
        \/ \E role_id \in Newest("role"), target_user_id \in Ids("user") :
            RemoveRoleFromUser(current_user, role_id, target_user_id, fault)
        \/ \E role_name \in RoleNames :
            CreateRole(current_user, role_name, fault)
        \/ \E role_id \in Newest("role") :
            DeleteRole(current_user, role_id, fault)
        \/ \E user_id \in Ids("user"), role_id \in Newest("role") :
            AssignRoleToUser(current_user, user_id, role_id, fault)
        \/ \E role_id \in Newest("role"),
              resource_id \in {NULL, Some(gen_id("role", 1))} :
            CreatePermission(current_user, role_id, resource_id, fault)
        \/ \E permission_id \in Newest("permission") :
            DeletePermission(current_user, permission_id, fault)

Spec == Init /\ [][Next]_vars

----------------------------------------------------------------------------
(* register calls of concurrent requests. Each request has its own         *)
(* Session (create_db_session), so the SELECT of the checks and the commit *)
(* are two steps on the shared database, and the calls of other requests   *)
(* may fall between them.                                                  *)

MaxInFlight == 2      \* register calls between their checks and commit

\* lines 43-52 of register: a call that passes the checks goes on to build
\* its rows, one that does not is answered at once
RegisterBegin(username, email, password_confirm) ==
    LET checks == register_checks(db, username, email, "pw",
                                  password_confirm)
        call == [username |-> username, email |-> email]
    IN  IF checks = OK
        THEN /\ call \notin inflight
             /\ Cardinality(inflight) < MaxInFlight
             /\ inflight' = inflight \cup {call}
             /\ UNCHANGED <<db, gen, res, checker, check_res, created_with>>
        ELSE /\ res' = [status |-> checks, message |-> ""]
             /\ UNCHANGED <<db, gen, checker, check_res, inflight,
                            created_with>>

\* lines 53-102 of register: the rows are built and committed
RegisterEnd(call, fault) ==
    LET out == register_writes(db, gen, call.username, call.email, fault)
    IN  /\ call \in inflight
        /\ Within(out.gen)
        /\ db' = out.db
        /\ gen' = out.gen
        /\ res' = [status |-> out.status, message |-> out.message]
        /\ inflight' = inflight \ {call}
        /\ UNCHANGED <<checker, check_res, created_with>>

NextRace ==
    \/ \E r \in Registrations, password_confirm \in Passwords :
        RegisterBegin(r[1], r[2], password_confirm)
    \/ \E call \in inflight, fault \in BOOLEAN : RegisterEnd(call, fault)

SpecRace == Init /\ [][NextRace]_vars

----------------------------------------------------------------------------
(* Properties of PermissionChecker.check, checked under SpecCheck          *)

\* some role of the checker has a non-null name equal to bypass_role or
\* listed in bypass_roles
BypassMatches(c) ==
    \E i \in 1..Len(c.roles) :
        /\ c.roles[i].name # NULL
        /\ \/ c.bypass_role = c.roles[i].name
           \/ InSeq(c.roles[i].name[1], c.bypass_roles)

\* the checker holds exactly one request of the given kind, with one action
SingleRequest(c, kind) ==
    /\ Len(c.pcheck_models) = 1
    /\ c.pcheck_models[1].kind = kind
    /\ Len(c.pcheck_models[1].action_names) = 1

\* the Permission rows of a role of the checker that name the resource and
\* the action of its single request
RowsForRequest(c) ==
    {p \in db.permission :
        /\ \E i \in 1..Len(c.roles) : p.role_id = Some(c.roles[i].id)
        /\ p.resource_name = c.pcheck_models[1].resource_name
        /\ p.action = c.pcheck_models[1].action_names[1]}

\* C1: a checker one of whose roles has a name equal to bypass_role or listed
\* in bypass_roles allows in both modes, whatever pcheck_models is, and
\* without evaluating a single permission predicate.
C1_BypassAlwaysAllows ==
    (check_res.done /\ BypassMatches(checker))
        => (check_res.allow /\ check_res.evals = 0)

\* C2: with no bypass role matching, check(either=True) allows exactly when
\* some (role, request, action) triple is satisfied by the predicate layer,
\* and raises Unauthorized otherwise.
C2_EitherIffSomeTriple ==
    (check_res.done /\ check_res.either /\ ~BypassMatches(checker))
        => (check_res.allow <=>
                \E i \in 1..Len(checker.roles),
                   j \in 1..Len(checker.pcheck_models) :
                    \E k \in 1..Len(checker.pcheck_models[j].action_names) :
                        _is_allowed(db.permission, checker.roles[i],
                            checker.pcheck_models[j],
                            checker.pcheck_models[j].action_names[k]))

\* either mode allowed by a triple that is not the first one visited
C2_Witness ==
    /\ check_res.done /\ check_res.either /\ ~BypassMatches(checker)
    /\ check_res.allow /\ check_res.evals > 2

\* role r satisfies every action of every request of the checker
SatisfiesAll(c, r) ==
    \A j \in 1..Len(c.pcheck_models) :
        \A k \in 1..Len(c.pcheck_models[j].action_names) :
            _is_allowed(db.permission, r, c.pcheck_models[j],
                        c.pcheck_models[j].action_names[k])

\* C3: with no bypass role matching, check(either=False) allows exactly when
\* one single role satisfies every action of every request; no role, or
\* grants split across roles, is Unauthorized.
C3_AllIffOneRoleSatisfiesAll ==
    (check_res.done /\ ~check_res.either /\ ~BypassMatches(checker))
        => (check_res.allow <=>
                \E i \in 1..Len(checker.roles) :
                    SatisfiesAll(checker, checker.roles[i]))

\* all mode denying although every request is satisfied by some role
C3_Witness ==
    /\ check_res.done /\ ~check_res.either /\ ~BypassMatches(checker)
    /\ ~check_res.allow
    /\ Len(checker.pcheck_models) = 2
    /\ \A j \in 1..Len(checker.pcheck_models) :
        /\ checker.pcheck_models[j].action_names # <<>>
        /\ \E i \in 1..Len(checker.roles) :
            \A k \in 1..Len(checker.pcheck_models[j].action_names) :
                _is_allowed(db.permission, checker.roles[i],
                            checker.pcheck_models[j],
                            checker.pcheck_models[j].action_names[k])

\* C4: a single global request is satisfied exactly when a role of the
\* checker has a Permission row with the resource_name and the action,
\* whatever the resource_id of the row.
C4_GlobalIgnoresResourceId ==
    (check_res.done /\ ~BypassMatches(checker)
        /\ SingleRequest(checker, "GlobalPermissionCheckModel"))
        => (check_res.allow <=> RowsForRequest(checker) # {})

\* a global request allowed although every matching row has a resource_id
C4_Witness ==
    /\ check_res.done /\ ~BypassMatches(checker)
    /\ SingleRequest(checker, "GlobalPermissionCheckModel")
    /\ check_res.allow
    /\ \A p \in RowsForRequest(checker) : p.resource_id # NULL

\* C5: a single scoped request is satisfied exactly when a role of the
\* checker has a Permission row with the resource_name, the action and the
\* requested id as a string; no other resource_id, and no null one, does.
C5_ScopedNeedsExactId ==
    (check_res.done /\ ~BypassMatches(checker)
        /\ SingleRequest(checker, "PermissionCheckModel"))
        => (check_res.allow <=>
                \E p \in RowsForRequest(checker) :
                    /\ p.resource_id # NULL
                    /\ p.resource_id[1] =
                           str(checker.pcheck_models[1].resource_id))

\* a scoped request denied although the role has the grant with no
\* resource_id and with another resource_id
C5_Witness ==
    /\ check_res.done /\ ~BypassMatches(checker)
    /\ SingleRequest(checker, "PermissionCheckModel")
    /\ ~check_res.allow
    /\ \E p, q \in RowsForRequest(checker) :
        p.resource_id = NULL /\ q.resource_id # NULL

\* C6: a grant with a resource_id does not satisfy a global request: a single
\* global request is allowed only through a row whose resource_id is null.
C6_ScopedGrantNotGlobal ==
    (check_res.done /\ ~BypassMatches(checker)
        /\ SingleRequest(checker, "GlobalPermissionCheckModel")
        /\ check_res.allow)
        => \E p \in RowsForRequest(checker) : p.resource_id = NULL

\* C9: a call of check() leaves the store and the fields of the checker as
\* they were, and the same call repeated returns the same outcome.
C9_CheckOnlyReads ==
    [][check_res' # check_res
        => /\ db' = db
           /\ checker' = checker
           /\ check(db'.permission, checker', check_res'.either).allow
                  = check_res'.allow]_vars

\* a check that evaluated predicates against a non-empty store and denied
C9_Witness ==
    /\ check_res.done /\ ~check_res.allow /\ check_res.evals > 0
    /\ db.permission # {}

----------------------------------------------------------------------------
(* Claims on the provider operations, checked under Spec *)

\* C7: in every reachable state, a successful create_link adds exactly one
\* Link, exactly one new anonymous Role linked to the calling user and
\* exactly one 'rw' Permission on 'link' scoped to the Link's id and owned by
\* that Role, and nothing else; a create_link that fails (label conflict,
\* failure of the transaction) leaves no Link, Role or Permission behind.
C7_CreateLinkAtomicTriple ==
    \A current_user \in db.user, label \in Labels, fault \in BOOLEAN :
        LET out == create_link(db, gen, current_user, label, fault)
            new == out.db
        IN  IF out.status = OK
            THEN \E l \in new.link, r \in new.role, p \in new.permission :
                    /\ l \notin db.link /\ new.link = db.link \cup {l}
                    /\ r \notin db.role /\ new.role = db.role \cup {r}
                    /\ p \notin db.permission
                    /\ new.permission = db.permission \cup {p}
                    /\ RoleUserLink(current_user.id, r.id)
                           \notin db.roleuserlink
                    /\ new.roleuserlink = db.roleuserlink \cup
                           {RoleUserLink(current_user.id, r.id)}
                    /\ new.user = db.user
                    /\ new.loginsession = db.loginsession
                    /\ new.authsession = db.authsession
                    /\ l.user_id = current_user.id /\ l.label = label
                    /\ r.name = NULL
                    /\ p.resource_name = LINK_RESOURCE
                    /\ p.resource_id = Some(l.id)
                    /\ p.action = ACTION_READWRITE
                    /\ p.role_id = Some(r.id)
            ELSE new = db

\* a create_link has succeeded: its Link, Role and Permission are stored
C7_Witness ==
    /\ res.status = OK
    /\ \E l \in db.link, r \in db.role, p \in db.permission :
        /\ r.name = NULL
        /\ RoleUserLink(l.user_id, r.id) \in db.roleuserlink
        /\ p.resource_name = LINK_RESOURCE
        /\ p.resource_id = Some(l.id)
        /\ p.role_id = Some(r.id)

\* C8: in every reachable state, when a RoleUserLink for (user_id, role_id)
\* exists already, an authorized assign_role_to_user returns "User already
\* has this role.", raises no error and leaves the store unchanged (the
\* table holds one row per (user_id, role_id) at most).
C8_AssignRoleIdempotent ==
    \A current_user \in db.user, l \in db.roleuserlink, fault \in BOOLEAN :
        authorized(db, current_user, Some(ADMIN_ROLE_NAME),
                   <<Global(USER_RESOURCE, ACTION_READWRITE)>>, FALSE)
        => LET out == assign_role_to_user(db, gen, current_user, l.user_id,
                                          l.role_id, fault)
           IN  /\ out.status = OK
               /\ out.message = "User already has this role."
               /\ out.db = db

\* a role was assigned to a user who had it
C8_Witness ==
    /\ res.message = "User already has this role."
    /\ db.roleuserlink # {}

\* C10: an operation that ends in an error (NotFound, Conflict,
\* Unauthorized, Validation, or a failed commit) leaves the persisted store
\* exactly as it was before the call.
C10_ErrorLeavesStore ==
    [][res'.status # OK => db' = db]_vars

\* an operation was refused while the store held a user's link
C10_Witness ==
    /\ res.status = Unauthorized
    /\ db.link # {}

\* C11: remove_role_from_user is guarded: when the caller does not pass the
\* check configured for it (a role with the global 'user' 'rw' grant, all
\* mode, no bypass), a call that names an existing (target_user_id, role_id)
\* RoleUserLink ends Unauthorized and removes no RoleUserLink (calls whose
\* transaction does not fail).
C11_RemoveRoleGuarded ==
    [][\A current_user \in db.user, role_id \in Newest("role"),
          target_user_id \in Ids("user") :
        (/\ RoleUserLink(target_user_id, role_id) \in db.roleuserlink
         /\ ~authorized(db, current_user, NULL,
                <<Global(USER_RESOURCE, ACTION_READWRITE)>>, FALSE)
         /\ RemoveRoleFromUser(current_user, role_id, target_user_id, FALSE))
        => /\ res'.status = Unauthorized
           /\ db'.roleuserlink = db.roleuserlink]_vars

----------------------------------------------------------------------------
(* Claims on concurrent register calls, checked under SpecRace *)

\* C12: user emails and usernames are unique: after any interleaving of
\* register calls, no two User rows share an email or share a username.
C12_UniqueEmailUsername ==
    \A u1 \in db.user, u2 \in db.user :
        u1 # u2 => (u1.email # u2.email /\ u1.username # u2.username)

----------------------------------------------------------------------------
(* Claims on the stored rows, checked under Spec *)

\* C13: in every reachable state, after a successful delete_user(target) no
\* User row of the target and no LoginSession, AuthSession, RoleUserLink or
\* Link row with user_id = target remains.
C13_DeleteUserCascades ==
    \A current_user \in db.user, target \in db.user, fault \in BOOLEAN :
        LET out == delete_user(db, gen, current_user, target.id, fault)
            new == out.db
        IN  out.status = OK
            => /\ \A x \in new.loginsession : x.user_id # target.id
               /\ \A x \in new.authsession : x.user_id # target.id
               /\ \A x \in new.roleuserlink : x.user_id # target.id
               /\ \A x \in new.link : x.user_id # target.id
               /\ target \notin new.user

\* a user with a login session and a link was deleted
C13_Witness ==
    /\ res.status = OK
    /\ res.message = "User deleted successfully."
    /\ gen.loginsession > 0 /\ db.loginsession = {}
    /\ gen.link > 0 /\ db.link = {}

\* C14: in every reachable state every Permission row belongs to exactly one
\* Role: its role_id is not null and is the id of a Role row of the store.
C14_PermissionHasRole ==
    \A p \in db.permission :
        /\ p.role_id # NULL
        /\ Cardinality({r \in db.role : r.id = p.role_id[1]}) = 1

\* a role that held permissions was deleted and other permissions remain
C14_Witness ==
    /\ res.message = "Role deleted successfully."
    /\ Cardinality(db.permission) < gen.permission
    /\ db.permission # {}

\* C15: no two Permission rows share the same (role_id, resource_name,
\* resource_id, action): creating a permission its role holds already is
\* refused with Conflict.
C15_NoDuplicatePermission ==
    \A p \in db.permission, q \in db.permission :
        (/\ p.role_id = q.role_id
         /\ p.resource_name = q.resource_name
         /\ p.resource_id = q.resource_id
         /\ p.action = q.action) => p = q

----------------------------------------------------------------------------
(* Claims on who is authorized, checked under Spec *)

\* the user holds no role named 'admin' and every Permission of every role
\* of the user has a resource_id
ScopedOnly(d, user) ==
    \A r \in roles_of(d, user) :
        /\ r.name # Some(ADMIN_ROLE_NAME)
        /\ \A p \in d.permission :
            p.role_id = Some(r.id) => p.resource_id # NULL

\* C16: a caller without a role named 'admin' whose roles hold only
\* ID-scoped permissions is answered Unauthorized by every operation guarded
\* by global check-requests: get_users, delete_user, get_user_roles,
\* assign_role_to_user, get_user_link, get_all_roles, create_role,
\* delete_role, create_permission, delete_permission.
C16_ScopedCallerDenied ==
    \A cu \in db.user :
        ScopedOnly(db, cu) =>
            /\ get_users(db, cu) = Unauthorized
            /\ get_user_roles(db, cu) = Unauthorized
            /\ get_all_roles(db, cu) = Unauthorized
            /\ \A t \in Ids("user") :
                /\ get_user_link(db, cu, t) = Unauthorized
                /\ delete_user(db, gen, cu, t, FALSE).status = Unauthorized
                /\ \A r \in Ids("role") :
                    assign_role_to_user(db, gen, cu, t, r, FALSE).status
                        = Unauthorized
            /\ \A n \in RoleNames :
                create_role(db, gen, cu, n, FALSE).status = Unauthorized
            /\ \A r \in Ids("role") :
                /\ delete_role(db, gen, cu, r, FALSE).status = Unauthorized
                /\ create_permission(db, gen, cu, r, ACTION_READWRITE,
                       ROLE_RESOURCE, NULL, FALSE).status = Unauthorized
            /\ \A q \in Ids("permission") :
                delete_permission(db, gen, cu, q, FALSE).status
                    = Unauthorized

\* the user holds a role named 'admin' or a role with a global grant
Privileged(d, user) ==
    \E r \in roles_of(d, user) :
        \/ r.name = Some(ADMIN_ROLE_NAME)
        \/ \E p \in d.permission :
            p.role_id = Some(r.id) /\ p.resource_id = NULL

HoldsAdmin(d, user_id) ==
    \E r \in d.role :
        /\ r.name = Some(ADMIN_ROLE_NAME)
        /\ RoleUserLink(user_id, r.id) \in d.roleuserlink

\* C17: no escalation to the bypass role: a user comes to hold a role named
\* 'admin' only by registering with an email of ADMIN_EMAILS, or through an
\* operation (assign_role_to_user, add_permission_to_user) whose caller
\* holds, at that moment, a role named 'admin' or a role with a
\* resource_id = null grant.
C17_NoEscalation ==
    /\ \A r \in Registrations :
        LET out == register(db, gen, r[1], r[2], "pw", "pw", FALSE)
        IN  \A u \in out.db.user :
                (HoldsAdmin(out.db, u.id) /\ ~HoldsAdmin(db, u.id))
                    => u.email \in ADMIN_EMAILS
    /\ \A cu \in db.user, u \in db.user :
        /\ \A r \in db.role :
            LET out == assign_role_to_user(db, gen, cu, u.id, r.id, FALSE)
            IN  (HoldsAdmin(out.db, u.id) /\ ~HoldsAdmin(db, u.id))
                    => Privileged(db, cu)
        /\ LET out == add_permission_to_user(db, gen, cu, u.id, ACTION_READ,
                          gen_id("link", 1), LINK_RESOURCE,
                          Some(ADMIN_ROLE_NAME), FALSE)
           IN  (HoldsAdmin(out.db, u.id) /\ ~HoldsAdmin(db, u.id))
                   => Privileged(db, cu)

----------------------------------------------------------------------------
(* Claims on the rows an operation creates, checked under Spec *)

\* the (resource_name, resource_id, action) of the permissions of a role
GrantsOf(permissions, role) ==
    {<<p.resource_name, p.resource_id, p.action>> :
        p \in {q \in permissions : q.role_id = Some(role.id)}}

\* C18: in every reachable state, a successful register creates exactly one
\* User and exactly one anonymous role linked to that user holding exactly
\* one Permission ('user', the new user's id, 'rw'); it also creates a role
\* named 'admin' linked to that user, holding exactly three
\* resource_id = null 'rw' permissions on 'user', 'role' and 'admin', if and
\* only if the email is listed in ADMIN_EMAILS; it creates nothing else.
C18_RegisterRows ==
    \A reg \in Registrations, fault \in BOOLEAN :
        LET out == register(db, gen, reg[1], reg[2], "pw", "pw", fault)
            new == out.db
            roles == new.role \ db.role
            perms == new.permission \ db.permission
            anon == {r \in roles : r.name = NULL}
            adm == {r \in roles : r.name = Some(ADMIN_ROLE_NAME)}
        IN  out.status = OK =>
            \E u \in new.user :
                /\ u \notin db.user /\ new.user = db.user \cup {u}
                /\ u.email = reg[2] /\ u.username = reg[1]
                /\ db.role \subseteq new.role
                /\ db.permission \subseteq new.permission
                /\ roles = anon \cup adm
                /\ new.roleuserlink = db.roleuserlink \cup
                       {RoleUserLink(u.id, r.id) : r \in roles}
                /\ new.link = db.link
                /\ new.loginsession = db.loginsession
                /\ new.authsession = db.authsession
                /\ Cardinality(anon) = 1
                /\ Cardinality(adm) = IF u.email \in ADMIN_EMAILS THEN 1 ELSE 0
                /\ Cardinality(perms) = Cardinality(anon) + 3 * Cardinality(adm)
                /\ \A p \in perms : p.role_id # NULL
                /\ \A p \in perms : \E r \in roles : p.role_id = Some(r.id)
                /\ \A r \in anon :
                    GrantsOf(perms, r) =
                        {<<USER_RESOURCE, Some(u.id), ACTION_READWRITE>>}
                /\ \A r \in adm :
                    GrantsOf(perms, r) =
                        {<<USER_RESOURCE, NULL, ACTION_READWRITE>>,
                         <<ROLE_RESOURCE, NULL, ACTION_READWRITE>>,
                         <<ADMIN_RESOURCE, NULL, ACTION_READWRITE>>}

\* a listed and a non-listed email have registered
C18_Witness ==
    /\ res.message = "Registered !"
    /\ \E u \in db.user : u.email \in ADMIN_EMAILS /\ HoldsAdmin(db, u.id)
    /\ \E u \in db.user : u.email \notin ADMIN_EMAILS /\ ScopedOnly(db, u)

----------------------------------------------------------------------------
(* Claims on the Link rows, checked under Spec *)

\* one of the roles of the user holds Permission('link', link_id, 'rw')
HasGrant(d, user, link_id) ==
    \E r \in roles_of(d, user), p \in d.permission :
        /\ p.role_id = Some(r.id)
        /\ p.resource_name = LINK_RESOURCE
        /\ p.resource_id = Some(link_id)
        /\ p.action = ACTION_READWRITE

\* the user who created the link is still linked to the role made with it
OwnsLinkRole(d, made, user, link) ==
    /\ user.id = link.user_id
    /\ RoleUserLink(user.id, made[link.id]) \in d.roleuserlink

\* update_link and delete_link on an existing link are permitted exactly to
\* the callers with the scoped grant (delete_link: or a role named 'admin'),
\* and a denied call is Unauthorized and changes nothing
LinkGuards(link, current_user) ==
    \A label \in Labels, fault \in BOOLEAN :
        LET up == update_link(db, gen, current_user, link.id, label, fault)
            del == delete_link(db, gen, current_user, link.id, fault)
        IN  /\ up.status # Unauthorized
                <=> HasGrant(db, current_user, link.id)
            /\ del.status # Unauthorized
                <=> \/ HasGrant(db, current_user, link.id)
                    \/ HoldsAdmin(db, current_user.id)
            /\ up.status = Unauthorized => up.db = db
            /\ del.status = Unauthorized => del.db = db
            /\ ~fault /\ up.status # Unauthorized => up.status = OK
            /\ ~fault /\ del.status # Unauthorized => del.status = OK

\* C19 as stated: in every reachable state, update_link and delete_link on
\* an existing link L are permitted if and only if one of the caller's roles
\* holds Permission('link', L.id, 'rw') (delete_link: or the caller holds a
\* role named 'admin'), a denied call is Unauthorized and leaves the store
\* unchanged, and the user who created L is permitted for both as long as
\* their link to the role created with L exists.
C19_LinkOwnerPermitted ==
    \A link \in db.link, current_user \in db.user :
        /\ LinkGuards(link, current_user)
        /\ OwnsLinkRole(db, created_with, current_user, link)
            => /\ update_link(db, gen, current_user, link.id, "a",
                              FALSE).status = OK
               /\ delete_link(db, gen, current_user, link.id,
                              FALSE).status = OK

\* C19 amended: in every reachable state, update_link and delete_link on an
\* existing link L are permitted if and only if one of the caller's roles
\* holds Permission('link', L.id, 'rw') (delete_link: or the caller holds a
\* role named 'admin'), a denied call is Unauthorized and leaves the store
\* unchanged, and the user who created L is permitted for both as long as
\* their link to the role created with L exists and that role still holds
\* the Permission created with L.
C19_LinkGrantPermits ==
    \A link \in db.link, current_user \in db.user :
        /\ LinkGuards(link, current_user)
        /\ (/\ OwnsLinkRole(db, created_with, current_user, link)
            /\ \E p \in db.permission :
                /\ p.role_id = Some(created_with[link.id])
                /\ p.resource_name = LINK_RESOURCE
                /\ p.resource_id = Some(link.id)
                /\ p.action = ACTION_READWRITE)
            => /\ update_link(db, gen, current_user, link.id, "a",
                              FALSE).status = OK
               /\ delete_link(db, gen, current_user, link.id,
                              FALSE).status = OK

\* a caller without the grant has just been denied on a link whose creator
\* still holds the role and the grant made with it
C19_Witness ==
    /\ res.status = Unauthorized
    /\ \E link \in db.link, owner \in db.user, other \in db.user :
        /\ OwnsLinkRole(db, created_with, owner, link)
        /\ HasGrant(db, owner, link.id)
        /\ ~HasGrant(db, other, link.id)
        /\ ~HoldsAdmin(db, other.id)

\* C20: Link labels are unique: in every reachable state no two Link rows
\* have the same label.
C20_UniqueLabels ==
    \A l1 \in db.link, l2 \in db.link : l1.label = l2.label => l1 = l2

----------------------------------------------------------------------------
(* Claims on the bypass role across the providers, checked under Spec *)

\* C21: in every reachable state, a caller holding a role named 'admin' is
\* answered Unauthorized by no permission-guarded provider operation,
\* whichever Permission rows exist: update_link (also on another user's
\* link), delete_link, get_role_permissions, add_permission_to_user and the
\* other guarded operations of providers/user.py and providers/link.py.
C21_AdminNeverDenied ==
    \A cu \in db.user :
        HoldsAdmin(db, cu.id) =>
            /\ get_users(db, cu) # Unauthorized
            /\ get_user_roles(db, cu) # Unauthorized
            /\ get_all_roles(db, cu) # Unauthorized
            /\ \A l \in Ids("link"), label \in Labels :
                /\ update_link(db, gen, cu, l, label, FALSE).status
                       # Unauthorized
                /\ delete_link(db, gen, cu, l, FALSE).status # Unauthorized
            /\ \A t \in Ids("user") :
                /\ get_user_link(db, cu, t) # Unauthorized
                /\ delete_user(db, gen, cu, t, FALSE).status # Unauthorized
                /\ add_permission_to_user(db, gen, cu, t, ACTION_READ,
                       gen_id("link", 1), LINK_RESOURCE, NULL, FALSE).status
                       # Unauthorized
                /\ \A r \in Ids("role") :
                    assign_role_to_user(db, gen, cu, t, r, FALSE).status
                        # Unauthorized
            /\ \A n \in RoleNames :
                create_role(db, gen, cu, n, FALSE).status # Unauthorized
            /\ \A r \in Ids("role") :
                /\ get_role_permissions(db, cu, r) # Unauthorized
                /\ delete_role(db, gen, cu, r, FALSE).status # Unauthorized
                /\ create_permission(db, gen, cu, r, ACTION_READWRITE,
                       ROLE_RESOURCE, NULL, FALSE).status # Unauthorized
            /\ \A q \in Ids("permission") :
                delete_permission(db, gen, cu, q, FALSE).status
                    # Unauthorized

----------------------------------------------------------------------------
(* Claims relating the two modes of check(), checked under SpecCheck *)

\* C22 as stated: for every store, every list of roles and every
\* pcheck_models (an empty list and requests with empty action_names
\* included), if check(either=False) allows then check(either=True) on the
\* same checker allows.
C22_EitherNotStricter ==
    check(db.permission, checker, FALSE).allow
        => check(db.permission, checker, TRUE).allow

\* C22 amended: when the requests of the checker list at least one action
\* name, a check(either=False) that allows implies that check(either=True)
\* on the same checker allows; when they list none (no request, or only
\* requests with empty action_names), no bypass role matches and the checker
\* has a role, check(either=False) allows and check(either=True) raises
\* Unauthorized.
C22_EitherNotStricterNonEmpty ==
    /\ (check_res.done /\ ~check_res.either /\ check_res.allow
            /\ pairs(checker.pcheck_models) # <<>>)
        => check(db.permission, checker, TRUE).allow
    /\ (check_res.done /\ pairs(checker.pcheck_models) = <<>>
            /\ ~bypass(checker) /\ checker.roles # <<>>)
        => check_res.allow = ~check_res.either

\* all mode has allowed through the second role on two requests that list
\* actions, with no bypass
C22_Witness ==
    /\ check_res.done /\ ~check_res.either /\ check_res.allow
    /\ ~bypass(checker)
    /\ Len(checker.pcheck_models) = 2
    /\ \A j \in 1..2 : checker.pcheck_models[j].action_names # <<>>
    /\ Len(checker.roles) = 2
    /\ ~SatisfiesAll(checker, checker.roles[1])

----------------------------------------------------------------------------
(* Claims on what delete_link leaves behind, checked under Spec *)

\* C23: no orphaned link grants: in every reachable state, a successful
\* delete_link(L) leaves no Permission row with resource_name 'link' and
\* resource_id L.id in the store, and not the personal Role that create_link
\* created for L (so that the calls of create_link and delete_link keep
\* every such Permission row referring to a Link row that exists).
C23_NoOrphanLinkGrants ==
    \A link \in db.link, current_user \in db.user :
        LET out == delete_link(db, gen, current_user, link.id, FALSE)
        IN  out.status = OK =>
                /\ \A p \in out.db.permission :
                    ~(/\ p.resource_name = LINK_RESOURCE
                      /\ p.resource_id = Some(link.id))
                /\ \A r \in out.db.role : r.id # created_with[link.id]
====
